---------------------------- MODULE Spec2Model ----------------------------
(***************************************************************************)
(* Model of Blender/vertex_animation.py (Spark AR vertex animation         *)
(* texture baker).                                                         *)
(*                                                                         *)
(* Python floats are modelled as exact rationals <<n, d>> (d > 0, lowest   *)
(* terms).  Vector lengths are kept as their squares; a value x / L with   *)
(* L = sqrt(m) is kept as the pair (x, m).  An uncaught Python exception   *)
(* is a result with its own tag ("ZeroDivisionError", "IndexError").       *)
(***************************************************************************)
EXTENDS Integers, Sequences, FiniteSets

VARIABLES
    pc,                     \* position of the operation under way
    chunk_width,            \* module global chunk_width
    unit_settings,          \* context.scene.unit_settings (system, scale_length)
    display_device,         \* scene.display_settings.display_device
    scale_factor,           \* context.scene.scale_factor (kept as its square)
    selection,              \* selected objects and the scene's frame range
    original_settings,      \* execute's local original_settings
    current_display_device, \* execute's local current_display_device
    result,                 \* what execute returned
    reports,                \* self.report(...) calls
    steps,                  \* the encoding steps execute has performed
    me,                     \* the export mesh handed to create_export_mesh_object
    uv_layer,               \* me.uv_layers[1].data, by loop index
    float_value,            \* argument of float_to_bytes
    bytes,                  \* what float_to_bytes returned, and the plane values
    image_in,               \* (byte_list, size) handed to create_and_save_image
    png_files,              \* the images create_and_save_image saved
    meshes,                 \* the per-frame meshes handed to get_vertex_data
    vertex_data             \* what get_vertex_data returned

vars == <<pc, chunk_width, unit_settings, display_device, scale_factor,
          selection, original_settings, current_display_device, result,
          reports, steps, me, uv_layer, float_value, bytes, image_in,
          png_files, meshes, vertex_data>>

execVars == <<unit_settings, display_device, selection, original_settings,
              current_display_device, result, reports, steps>>
uvVars == <<me, uv_layer>>
quantVars == <<float_value, bytes>>
imageVars == <<image_in, png_files>>
vertexVars == <<meshes, vertex_data>>

----------------------------------------------------------------------------
(* Bounds of the model *)

MaxChunkWidth == 4
MaxVertices == 9
MaxWidth == 6
MaxHeight == 2
MaxDen == 12
MaxFrames == 2
MaxFrameVertices == 2
MaxObjects == 2

(* Program constants *)

DefaultChunkWidth == 128
VertexLimit == 2048
FrameLimit == 1024
MinImageSize == 32
Scale16 == 65535

----------------------------------------------------------------------------
(* Float arithmetic, exact *)

Abs(x) == IF x < 0 THEN -x ELSE x

RECURSIVE GCD(_, _)
GCD(a, b) == IF b = 0 THEN a ELSE GCD(b, a % b)

Rat(n, d) ==
    LET s == IF d < 0 THEN -1 ELSE 1
        g == GCD(Abs(n), Abs(d))
    IN  <<(s * n) \div g, (s * d) \div g>>

(* sums and products reduce before they multiply, to stay in TLC's integers *)
RAdd(a, b) ==
    LET g == GCD(a[2], b[2])
    IN  Rat(a[1] * (b[2] \div g) + b[1] * (a[2] \div g), (a[2] \div g) * b[2])
RNeg(a) == <<-a[1], a[2]>>
RSub(a, b) == RAdd(a, RNeg(b))
RMul(a, b) ==
    LET g1 == GCD(Abs(a[1]), b[2])
        g2 == GCD(Abs(b[1]), a[2])
    IN  Rat((a[1] \div g1) * (b[1] \div g2), (a[2] \div g2) * (b[2] \div g1))
RLess(a, b) == RSub(a, b)[1] < 0
RLeq(a, b) == RSub(a, b)[1] <= 0
RInt(i) == <<i, 1>>

(* Python's int(x): truncation toward zero *)
Trunc(a) == IF a[1] >= 0 THEN a[1] \div a[2] ELSE -((-a[1]) \div a[2])

(* Python's max(a, b) *)
Max(a, b) == IF a >= b THEN a ELSE b

(* len(range(start, stop, step)) for step > 0 *)
RangeLen(start, stop, step) ==
    IF stop <= start THEN 0 ELSE (stop - start + step - 1) \div step

Range0(n) == [i \in 1..n |-> i - 1]


----------------------------------------------------------------------------
(* float_to_bytes and write_output_image *)

(* int_value >> 8 and int_value & 0xFF on Python's unbounded two's-complement
   integers: floor division by 256 and the non-negative residue mod 256 *)
ShiftRight8(n) == IF n >= 0 THEN n \div 256 ELSE -(((-n) + 255) \div 256)
Mask8(n) == IF n >= 0 THEN n % 256 ELSE (256 - ((-n) % 256)) % 256

int_value_of(v) == Trunc(RMul(v, RInt(Scale16)))

(* float_to_bytes with the two bytes taken the other way round *)
float_to_bytes_swapped(v) ==
    LET int_value == int_value_of(v)
    IN  <<Mask8(int_value), Mask8(ShiftRight8(int_value))>>

float_to_bytes(v) ==
    LET int_value == int_value_of(v)
        high_byte == Mask8(ShiftRight8(int_value))
        low_byte == Mask8(int_value)
    IN  <<high_byte, low_byte>>

(* the loop body of write_output_image: the values appended to
   high_bytes_list and low_bytes_list for one pixel value *)
write_output_image_pixel(v) ==
    LET hl == float_to_bytes(v)
    IN  [high_byte |-> hl[1], low_byte |-> hl[2],
         high |-> Rat(hl[1], 255), low |-> Rat(hl[2], 255)]

----------------------------------------------------------------------------
(* create_export_mesh_object *)

UVConst == Rat(128, 255)
NoUV == <<RInt(0), RInt(0)>>

(* the body of the loop over me.loops for one loop of vertex index idx *)
uv_of_loop(idx, max_vertex_index, texture_size) ==
    LET chunks == max_vertex_index \div texture_size
        remainder == max_vertex_index % texture_size
        chunk_number == idx \div texture_size
        index_in_chunk == idx % texture_size
        current_pixel_width ==
            IF chunk_number < chunks THEN texture_size ELSE remainder
    IN  IF current_pixel_width = 0 \/ current_pixel_width - 1 = 0
        THEN [raised |-> "ZeroDivisionError", uv |-> NoUV]
        ELSE LET pixel_center_offset == Rat(3, 2 * current_pixel_width)
                 uv_scale == RSub(RInt(1), RMul(RInt(2), pixel_center_offset))
                 u_coord ==
                     RAdd(RAdd(RInt(chunk_number),
                               RMul(uv_scale,
                                    Rat(index_in_chunk, current_pixel_width - 1))),
                          pixel_center_offset)
             IN  [raised |-> "", uv |-> <<u_coord, UVConst>>]

(* the loop over me.loops: it stops at the first loop that raises, and
   uv_layer.data holds what the loops before it assigned *)
first_raise(loops, n, texture_size) ==
    LET bad == {i \in 1..Len(loops) :
                   uv_of_loop(loops[i], n, texture_size).raised # ""}
    IN  IF bad = {} THEN Len(loops) + 1
        ELSE CHOOSE i \in bad : \A j \in bad : i <= j

assign_loops(loops, n, texture_size) ==
    LET stop == first_raise(loops, n, texture_size)
    IN  [raised |-> IF stop > Len(loops) THEN ""
                    ELSE uv_of_loop(loops[stop], n, texture_size).raised,
         data |-> [i \in 1..Len(loops) |->
                      IF i < stop THEN uv_of_loop(loops[i], n, texture_size).uv
                      ELSE NoUV]]

create_export_mesh_object(mesh, texture_size) ==
    LET r == assign_loops(mesh.loops, mesh.vertices, texture_size)
    IN  [raised |-> r.raised,
         uv_layers |-> Max(mesh.uv_layers, 2),
         name |-> "vertex_anim",
         data |-> r.data,
         linked |-> (r.raised = "")]

----------------------------------------------------------------------------
(* create_and_save_image *)

padding == <<Rat(127, 255), Rat(127, 255), Rat(127, 255), RInt(1)>>

(* Python's byte_list[start:end] for 0 <= start (0-based, end excluded,
   clamped to the list) *)
PySlice(list, start, end) ==
    LET hi == IF end > Len(list) THEN Len(list) ELSE end
    IN  IF hi <= start THEN <<>>
        ELSE [p \in 1..(hi - start) |-> list[start + p]]

(* the chunk loop without the partial last chunk *)
chunk_range_len_short(width, cw) == width \div cw

(* len(range(chunk_count + (1 if remainder_width else 0))) *)
chunk_range_len(width, cw) ==
    (width \div cw) + (IF width % cw # 0 THEN 1 ELSE 0)

(* what the loop over y adds to chunk_bytes for row y of chunk i *)
chunk_row(byte_list, width, cw, i, y) ==
    LET chunk_count == width \div cw
        remainder_width == width % cw
        start_index == (y * width + i * cw) * 4
        end_index == IF i = chunk_count
                     THEN start_index + remainder_width * 4
                     ELSE start_index + cw * 4
    IN  padding \o PySlice(byte_list, start_index, end_index) \o padding

(* chunk_bytes after rows lo .. hi-1 of chunk i, in order (the rows are
   joined by halves to keep the evaluation shallow) *)
RECURSIVE chunk_rows(_, _, _, _, _, _)
chunk_rows(byte_list, width, cw, i, lo, hi) ==
    IF hi <= lo THEN <<>>
    ELSE IF hi = lo + 1 THEN chunk_row(byte_list, width, cw, i, lo)
    ELSE LET mid == (lo + hi) \div 2
         IN  chunk_rows(byte_list, width, cw, i, lo, mid)
             \o chunk_rows(byte_list, width, cw, i, mid, hi)

(* one iteration of the loop over the chunks: the image saved for chunk i *)
chunk_image(byte_list, width, height, cw, i) ==
    LET chunk_count == width \div cw
        remainder_width == width % cw
        chunk_img_width == IF i # chunk_count THEN cw + 2 ELSE remainder_width + 2
        target_width == Max(MinImageSize, chunk_img_width)
        target_height == Max(MinImageSize, height)
    IN  [part |-> i,
         width |-> chunk_img_width,
         height |-> height,
         pixels |-> chunk_rows(byte_list, width, cw, i, 0, height),
         scaled |-> (chunk_img_width < MinImageSize \/ height < MinImageSize),
         saved_size |-> <<target_width, target_height>>]

create_and_save_image(byte_list, size, cw) ==
    [k \in 1..chunk_range_len(size[1], cw) |->
        chunk_image(byte_list, size[1], size[2], cw, k - 1)]

----------------------------------------------------------------------------
(* get_vertex_data *)

(* A channel value (n / sqrt(m) + 1) * 0.5 is kept as <<n, m>>; the
   literal 1 of the alpha channel is <<1, 1>>. *)
Chan(n, m) == <<n, m>>
Alpha == Chan(1, 1)

VSub(a, b) == <<a[1] - b[1], a[2] - b[2], a[3] - b[3]>>

(* (v.co - original[v.index].co).length, squared *)
Length2(d) == d[1] * d[1] + d[2] * d[2] + d[3] * d[3]

(* reversed(meshes) *)
Reversed(s) == [i \in 1..Len(s) |-> s[Len(s) + 1 - i]]

SeqMax(S) == IF S = {} THEN 0 ELSE CHOOSE x \in S : \A y \in S : y <= x

(* original[v.index] raises IndexError for a vertex beyond the rest frame *)
index_error(ms) ==
    \E f \in 1..Len(ms) : Len(ms[f]) > Len(ms[1])

(* first loop nest: the largest offset length, squared *)
scan_max_offset(ms) ==
    SeqMax(UNION {{Length2(VSub(ms[f][i].co, ms[1][i].co)) :
                      i \in 1..Len(ms[f])} : f \in 1..Len(ms)} \cup {0})

(* no guard *)
guard_max_offset_missing(max_sq) == max_sq

(* the guard against a zero max_offset_length *)
guard_max_offset(max_sq) == IF max_sq = 0 THEN 1 ELSE max_sq

(* what one vertex of one frame adds to offsets *)
offset_pixel(v, orig, max_sq) ==
    LET offset == VSub(v.co, orig.co)
    IN  <<Chan(offset[1], max_sq), Chan(-offset[2], max_sq),
          Chan(offset[3], max_sq), Alpha>>

(* what one vertex of one frame adds to normals *)
normal_pixel(v) ==
    <<Chan(v.normal[1], 1), Chan(v.normal[2], 1), Chan(v.normal[3], 1), Alpha>>

RECURSIVE frame_pixels(_, _, _, _, _)
frame_pixels(frame, orig, max_sq, kind, i) ==
    IF i > Len(frame) THEN <<>>
    ELSE (IF kind = "offset" THEN offset_pixel(frame[i], orig[i], max_sq)
          ELSE normal_pixel(frame[i]))
         \o frame_pixels(frame, orig, max_sq, kind, i + 1)

RECURSIVE plane(_, _, _, _, _)
plane(rev, orig, max_sq, kind, f) ==
    IF f > Len(rev) THEN <<>>
    ELSE frame_pixels(rev[f], orig, max_sq, kind, 1)
         \o plane(rev, orig, max_sq, kind, f + 1)

get_vertex_data(ms, old_scale_factor) ==
    IF index_error(ms)
    THEN [raised |-> "IndexError", offsets |-> <<>>, normals |-> <<>>,
          scale_factor |-> old_scale_factor, removed |-> {}]
    ELSE LET max_offset_length == guard_max_offset(scan_max_offset(ms))
         IN  IF max_offset_length = 0
             THEN [raised |-> "ZeroDivisionError", offsets |-> <<>>,
                   normals |-> <<>>, scale_factor |-> max_offset_length,
                   removed |-> {}]
             ELSE [raised |-> "",
                   offsets |-> plane(Reversed(ms), ms[1], max_offset_length,
                                     "offset", 1),
                   normals |-> plane(Reversed(ms), ms[1], max_offset_length,
                                     "normal", 1),
                   scale_factor |-> max_offset_length,
                   removed |-> 1..Len(ms)]

----------------------------------------------------------------------------
(* OBJECT_OT_ProcessAnimMeshes.execute *)

allowed_modifiers ==
    {"ARMATURE", "CAST", "CURVE", "DISPLACE", "HOOK", "LAPLACIANDEFORM",
     "LATTICE", "MESH_DEFORM", "MESH_SEQUENCE_CACHE", "SHRINKWRAP",
     "SIMPLE_DEFORM", "SMOOTH", "CORRECTIVE_SMOOTH", "LAPLACIANSMOOTH",
     "SURFACE_DEFORM", "WARP", "WAVE"}

(* scale_length is kept in thousandths; round(x, 2) rounds it to a multiple
   of ten, halves to even *)
Round2(x) ==
    LET q == x \div 10
        r == x % 10
    IN  IF r < 5 THEN q * 10
        ELSE IF r > 5 THEN (q + 1) * 10
        ELSE IF q % 2 = 0 THEN q * 10 ELSE (q + 1) * 10

MetricUnits == [system |-> "METRIC", scale_length |-> 10]

store_unit_settings(units) == <<units.system, units.scale_length>>
set_metric_units(units) == MetricUnits
reset_unit_settings(original) ==
    [system |-> original[1], scale_length |-> original[2]]

RECURSIVE SumVertices(_, _)
SumVertices(objects, i) ==
    IF i > Len(objects) THEN 0
    ELSE objects[i].vertices + SumVertices(objects, i + 1)

vertex_count_of(sel) == SumVertices(sel.objects, 1)
frame_count_of(sel) == RangeLen(sel.frame_start, sel.frame_end, sel.frame_step)

(* the checks of execute without the two limits *)
precondition_error_no_limits(sel, units) ==
    IF \E i \in 1..Len(sel.objects) :
           \E mod \in sel.objects[i].modifiers : mod \notin allowed_modifiers
    THEN "modifiers are not allowed"
    ELSE IF units.system # "METRIC" \/ Round2(units.scale_length) # 10
    THEN "Scene Unit must be Metric with a Unit Scale of 0.01"
    ELSE ""

(* the checks of execute, in their order: the error reported, or "" *)
precondition_error(sel, units) ==
    IF \E i \in 1..Len(sel.objects) :
           \E mod \in sel.objects[i].modifiers : mod \notin allowed_modifiers
    THEN "modifiers are not allowed"
    ELSE IF units.system # "METRIC" \/ Round2(units.scale_length) # 10
    THEN "Scene Unit must be Metric with a Unit Scale of 0.01"
    ELSE IF vertex_count_of(sel) > VertexLimit
    THEN "Vertex count execedes limit"
    ELSE IF frame_count_of(sel) > FrameLimit
    THEN "Frame count execedes limit"
    ELSE ""

Step(name, n) == [step |-> name, n |-> n]

ExecBegin ==
    /\ pc = "idle"
    /\ original_settings' = store_unit_settings(unit_settings)
    /\ unit_settings' = set_metric_units(unit_settings)
    /\ pc' = "validate"
    /\ UNCHANGED <<chunk_width, display_device, scale_factor, selection,
                   current_display_device, result, reports, steps,
                   uvVars, quantVars, imageVars, vertexVars>>

ExecValidate ==
    /\ pc = "validate"
    /\ LET err == precondition_error(selection, unit_settings)
       IN  IF err # ""
           THEN /\ reports' = Append(reports, err)
                /\ result' = "CANCELLED"
                /\ pc' = "done"
                /\ UNCHANGED <<display_device, current_display_device>>
           ELSE /\ current_display_device' = display_device
                /\ display_device' = "None"
                /\ pc' = "sample"
                /\ UNCHANGED <<reports, result>>
    /\ UNCHANGED <<chunk_width, unit_settings, scale_factor, selection,
                   original_settings, steps,
                   uvVars, quantVars, imageVars, vertexVars>>

(* get_per_frame_mesh_data, then meshes[0].copy() *)
ExecSample ==
    /\ pc = "sample"
    /\ steps' = Append(steps, Step("get_per_frame_mesh_data",
                                   frame_count_of(selection)))
    /\ IF frame_count_of(selection) = 0
       THEN pc' = "raised" /\ result' = "IndexError"
       ELSE pc' = "uv" /\ UNCHANGED result
    /\ UNCHANGED <<chunk_width, unit_settings, display_device, scale_factor,
                   selection, original_settings, current_display_device,
                   reports, uvVars, quantVars, imageVars, vertexVars>>

ExecUV ==
    /\ pc = "uv"
    /\ steps' = Append(steps, Step("create_export_mesh_object",
                                   vertex_count_of(selection)))
    /\ IF \E idx \in 0..(vertex_count_of(selection) - 1) :
              uv_of_loop(idx, vertex_count_of(selection), chunk_width).raised # ""
       THEN pc' = "raised" /\ result' = "ZeroDivisionError"
       ELSE pc' = "vertex_data" /\ UNCHANGED result
    /\ UNCHANGED <<chunk_width, unit_settings, display_device, scale_factor,
                   selection, original_settings, current_display_device,
                   reports, uvVars, quantVars, imageVars, vertexVars>>

ScaleFactors == {1, 4}

ExecVertexData ==
    /\ pc = "vertex_data"
    /\ steps' = Append(steps, Step("get_vertex_data", frame_count_of(selection)))
    /\ \E sf \in ScaleFactors : scale_factor' = sf
    /\ pc' = "bake"
    /\ UNCHANGED <<chunk_width, unit_settings, display_device, selection,
                   original_settings, current_display_device, result,
                   reports, uvVars, quantVars, imageVars, vertexVars>>

(* bake_vertex_data: two planes, two byte planes each *)
ExecBake ==
    /\ pc = "bake"
    /\ steps' = Append(steps,
                       Step("create_and_save_image",
                            4 * chunk_range_len(vertex_count_of(selection),
                                                chunk_width)))
    /\ pc' = "export"
    /\ UNCHANGED <<chunk_width, unit_settings, display_device, scale_factor,
                   selection, original_settings, current_display_device,
                   result, reports, uvVars, quantVars, imageVars, vertexVars>>

ExecExport ==
    /\ pc = "export"
    /\ steps' = Append(steps, Step("export_mesh", 1))
    /\ pc' = "restore"
    /\ UNCHANGED <<chunk_width, unit_settings, display_device, scale_factor,
                   selection, original_settings, current_display_device,
                   result, reports, uvVars, quantVars, imageVars, vertexVars>>

ExecFinish ==
    /\ pc = "restore"
    /\ display_device' = current_display_device
    /\ unit_settings' = reset_unit_settings(original_settings)
    /\ result' = "FINISHED"
    /\ pc' = "done"
    /\ UNCHANGED <<chunk_width, scale_factor, selection, original_settings,
                   current_display_device, reports, steps,
                   uvVars, quantVars, imageVars, vertexVars>>

----------------------------------------------------------------------------
(* The pure functions, each applied once to an input of its specification *)

CreateExportMesh ==
    /\ pc = "idle"
    /\ uv_layer' = create_export_mesh_object(me, chunk_width)
    /\ pc' = IF uv_layer'.raised = "" THEN "done" ELSE "raised"
    /\ UNCHANGED <<chunk_width, scale_factor, me, execVars, quantVars,
                   imageVars, vertexVars>>

WriteOutputImage ==
    /\ pc = "idle"
    /\ bytes' = write_output_image_pixel(float_value)
    /\ pc' = "done"
    /\ UNCHANGED <<chunk_width, scale_factor, float_value, execVars, uvVars,
                   imageVars, vertexVars>>

CreateAndSaveImage ==
    /\ pc = "idle"
    /\ png_files' = create_and_save_image(image_in.byte_list, image_in.size,
                                          chunk_width)
    /\ pc' = "done"
    /\ UNCHANGED <<chunk_width, scale_factor, image_in, execVars, uvVars,
                   quantVars, vertexVars>>

GetVertexData ==
    /\ pc = "idle"
    /\ vertex_data' = get_vertex_data(meshes, scale_factor)
    /\ scale_factor' = vertex_data'.scale_factor
    /\ pc' = IF vertex_data'.raised = "" THEN "done" ELSE "raised"
    /\ UNCHANGED <<chunk_width, meshes, execVars, uvVars, quantVars, imageVars>>

----------------------------------------------------------------------------
(* Inputs *)

UnitSystems == {"NONE", "METRIC", "IMPERIAL"}
ScaleLengths == {10, 1000}

ObjectKinds ==
    {[vertices |-> 1, modifiers |-> {}],
     [vertices |-> 128, modifiers |-> {"ARMATURE"}],
     [vertices |-> 2048, modifiers |-> {}],
     [vertices |-> 2, modifiers |-> {"SUBSURF"}]}

Selections ==
    {[objects |-> o, frame_start |-> s, frame_end |-> e, frame_step |-> st] :
        o \in UNION {[1..k -> ObjectKinds] : k \in 0..MaxObjects},
        s \in {0, 1}, e \in {1, 3, FrameLimit + 1, FrameLimit + 2,
                             2 * FrameLimit + 2},
        st \in {1, 2}}

ChunkWidths == (1..MaxChunkWidth) \cup {DefaultChunkWidth}

VertexCounts ==
    (1..MaxVertices) \cup {DefaultChunkWidth, DefaultChunkWidth + 1,
                           DefaultChunkWidth + 2, DefaultChunkWidth + 5,
                           2 * DefaultChunkWidth}

Meshes ==
    {[vertices |-> n, loops |-> l, uv_layers |-> k] :
        n \in VertexCounts, l \in {"ascending", "descending"}, k \in 0..2}

LoopsOf(mesh) ==
    IF mesh.loops = "ascending" THEN Range0(mesh.vertices)
    ELSE Reversed(Range0(mesh.vertices))

FloatInputs ==
    UNION {{Rat(n, d) : n \in (-d)..(2 * d)} : d \in 1..MaxDen}
    \cup {Rat(k, Scale16) : k \in {-256, -1, 1, 255, 256, 257, 65279, 65280,
                                   65534, 65536, 65791}}
    \cup {Rat(2 * k + 1, 2 * Scale16) : k \in {-1, 0, 255, 65279, 65534, 65535}}

Widths == (1..MaxWidth) \cup {DefaultChunkWidth + 2}
Heights == (1..MaxHeight) \cup {MinImageSize}

ByteList(w, h, kind) ==
    [j \in 1..(w * h * 4) |-> IF kind = "tags" THEN <<j - 1, 255>> ELSE RInt(0)]

ImageInputs ==
    {[byte_list |-> ByteList(w, h, kind), size |-> <<w, h>>] :
        w \in Widths, h \in Heights, kind \in {"tags", "zeros"}}

Positions == {<<0, 0, 0>>, <<1, 0, 0>>, <<1, -2, 2>>}
Normals == {<<0, 0, 1>>, <<0, -1, 0>>}

FramesWith(nrm) ==
    UNION {[1..k -> {[co |-> p, normal |-> nrm] : p \in Positions}] :
              k \in 1..MaxFrameVertices}

MeshSequences ==
    UNION {UNION {[1..f -> FramesWith(nrm)] : f \in 1..MaxFrames} :
              nrm \in Normals}

----------------------------------------------------------------------------
(* Specifications *)

ExecIdle ==
    /\ unit_settings = MetricUnits
    /\ display_device = "sRGB"
    /\ selection = [objects |-> <<>>, frame_start |-> 1, frame_end |-> 250,
                    frame_step |-> 1]
    /\ original_settings = <<"METRIC", 10>>
    /\ current_display_device = "sRGB"
    /\ result = ""
    /\ reports = <<>>
    /\ steps = <<>>

UVIdle ==
    /\ me = [vertices |-> 0, loops |-> <<>>, uv_layers |-> 0]
    /\ uv_layer = [raised |-> "", uv_layers |-> 0, name |-> "", data |-> <<>>,
                   linked |-> FALSE]

QuantIdle ==
    /\ float_value = RInt(0)
    /\ bytes = [high_byte |-> 0, low_byte |-> 0, high |-> RInt(0),
                low |-> RInt(0)]

ImageIdle ==
    /\ image_in = [byte_list |-> <<>>, size |-> <<0, 0>>]
    /\ png_files = <<>>

VertexIdle ==
    /\ meshes = <<>>
    /\ vertex_data = [raised |-> "", offsets |-> <<>>, normals |-> <<>>,
                      scale_factor |-> 1, removed |-> {}]

Init ==
    /\ pc = "idle"
    /\ chunk_width = DefaultChunkWidth
    /\ unit_settings \in [system : UnitSystems, scale_length : ScaleLengths]
    /\ display_device = "sRGB"
    /\ scale_factor = 1
    /\ selection \in Selections
    /\ original_settings = <<"METRIC", 10>>
    /\ current_display_device = "sRGB"
    /\ result = ""
    /\ reports = <<>>
    /\ steps = <<>>
    /\ UVIdle /\ QuantIdle /\ ImageIdle /\ VertexIdle

Next ==
    \/ ExecBegin
    \/ ExecValidate
    \/ ExecSample
    \/ ExecUV
    \/ ExecVertexData
    \/ ExecBake
    \/ ExecExport
    \/ ExecFinish

Spec == Init /\ [][Next]_vars

InitUV ==
    /\ pc = "idle"
    /\ chunk_width \in ChunkWidths
    /\ scale_factor = 1
    /\ \E m \in Meshes :
          me = [vertices |-> m.vertices, loops |-> LoopsOf(m),
                uv_layers |-> m.uv_layers]
    /\ uv_layer = [raised |-> "", uv_layers |-> 0, name |-> "", data |-> <<>>,
                   linked |-> FALSE]
    /\ ExecIdle /\ QuantIdle /\ ImageIdle /\ VertexIdle

NextUV == CreateExportMesh

SpecUV == InitUV /\ [][NextUV]_vars

InitQuant ==
    /\ pc = "idle"
    /\ chunk_width = DefaultChunkWidth
    /\ scale_factor = 1
    /\ float_value \in FloatInputs
    /\ bytes = [high_byte |-> 0, low_byte |-> 0, high |-> RInt(0),
                low |-> RInt(0)]
    /\ ExecIdle /\ UVIdle /\ ImageIdle /\ VertexIdle

NextQuant == WriteOutputImage

SpecQuant == InitQuant /\ [][NextQuant]_vars

InitImage ==
    /\ pc = "idle"
    /\ chunk_width \in ChunkWidths
    /\ scale_factor = 1
    /\ image_in \in ImageInputs
    /\ png_files = <<>>
    /\ ExecIdle /\ UVIdle /\ QuantIdle /\ VertexIdle

NextImage == CreateAndSaveImage

SpecImage == InitImage /\ [][NextImage]_vars

InitVertex ==
    /\ pc = "idle"
    /\ chunk_width = DefaultChunkWidth
    /\ scale_factor = 1
    /\ meshes \in MeshSequences
    /\ vertex_data = [raised |-> "", offsets |-> <<>>, normals |-> <<>>,
                      scale_factor |-> 1, removed |-> {}]
    /\ ExecIdle /\ UVIdle /\ QuantIdle /\ ImageIdle

NextVertex == GetVertexData

SpecVertex == InitVertex /\ [][NextVertex]_vars

----------------------------------------------------------------------------
(* Properties *)

(* the sum of the logical widths (width - 2) of images lo .. hi *)
RECURSIVE SumLogicalWidths(_, _, _)
SumLogicalWidths(images, lo, hi) ==
    IF hi < lo THEN 0
    ELSE IF hi = lo THEN images[lo].width - 2
    ELSE LET mid == (lo + hi) \div 2
         IN  SumLogicalWidths(images, lo, mid)
             + SumLogicalWidths(images, mid + 1, hi)

(* logical width of chunk i of a plane W wide cut every C columns *)
LogicalWidth(W, C, i) == IF i < W \div C THEN C ELSE W % C

(* C1: create_and_save_image emits W div C chunks, one more when W % C > 0;
   chunk i is w + 2 wide with w = C, or W % C for the last partial chunk;
   the logical widths sum to W; source column i*C + c of every row sits at
   chunk column c + 1 of chunk i, between two padding pixels; every source
   column belongs to exactly one chunk. *)
C1_ChunkCoverage ==
    pc = "done" =>
        LET W == image_in.size[1]
            H == image_in.size[2]
            C == chunk_width
            src == image_in.byte_list
        IN  /\ Len(png_files) = (W \div C) + (IF W % C > 0 THEN 1 ELSE 0)
            /\ SumLogicalWidths(png_files, 1, Len(png_files)) = W
            /\ \A k \in 1..Len(png_files) :
                  LET img == png_files[k]
                      i == k - 1
                      w == LogicalWidth(W, C, i)
                  IN  /\ img.part = i
                      /\ img.width = w + 2
                      /\ img.height = H
                      /\ Len(img.pixels) = (w + 2) * H * 4
                      /\ \A y \in 0..(H - 1), ch \in 1..4 :
                            /\ img.pixels[(y * (w + 2)) * 4 + ch] = padding[ch]
                            /\ img.pixels[(y * (w + 2) + w + 1) * 4 + ch]
                                   = padding[ch]
                            /\ \A c \in 0..(w - 1) :
                                  img.pixels[(y * (w + 2) + c + 1) * 4 + ch]
                                      = src[(y * W + i * C + c) * 4 + ch]
            /\ \A col \in 0..(W - 1) :
                  Cardinality({k \in 1..Len(png_files) :
                                  /\ (k - 1) * C <= col
                                  /\ col < (k - 1) * C + (png_files[k].width - 2)})
                      = 1

(* a plane with full chunks and a partial last chunk has been cut *)
C1_Witness ==
    /\ pc = "done"
    /\ image_in.size[1] \div chunk_width >= 2
    /\ image_in.size[1] % chunk_width > 0
    /\ image_in.size[2] >= 2
    /\ image_in.byte_list[2] = <<1, 255>>
    /\ Len(png_files) = (image_in.size[1] \div chunk_width) + 1

(* the chunk and column of the loop at position i of me.loops *)
ChunkOf(i) == me.loops[i] \div chunk_width
ColumnOf(i) == me.loops[i] % chunk_width
PixelWidthOf(i) ==
    IF ChunkOf(i) < me.vertices \div chunk_width THEN chunk_width
    ELSE me.vertices % chunk_width
UOf(i) == uv_layer.data[i][1]

(* C2: every vertex whose chunk is w >= 2 pixels wide gets a u inside its
   own chunk and inside its own pixel column of the padded image, w + 2
   wide: (k+1)/(w+2) <= u - chunk <= (k+2)/(w+2). *)
C2_UVAddressesOwnColumn ==
    pc = "done" =>
        \A i \in 1..Len(me.loops) :
            PixelWidthOf(i) >= 2 =>
                LET w == PixelWidthOf(i)
                    k == ColumnOf(i)
                    frac == RSub(UOf(i), RInt(ChunkOf(i)))
                IN  /\ RLeq(RInt(ChunkOf(i)), UOf(i))
                    /\ RLess(UOf(i), RInt(ChunkOf(i) + 1))
                    /\ RLeq(Rat(k + 1, w + 2), frac)
                    /\ RLeq(frac, Rat(k + 2, w + 2))

(* C3: within every chunk u strictly increases with indexInChunk, and every
   u of chunk n lies in [n, n + 1]. *)
C3_UVMonotoneInChunk ==
    pc = "done" =>
        /\ \A i \in 1..Len(me.loops) :
              /\ RLeq(RInt(ChunkOf(i)), UOf(i))
              /\ RLeq(UOf(i), RInt(ChunkOf(i) + 1))
        /\ \A i, j \in 1..Len(me.loops) :
              (ChunkOf(i) = ChunkOf(j) /\ ColumnOf(i) < ColumnOf(j))
                  => RLess(UOf(i), UOf(j))

(* C4: a vertex whose chunk is 1 pixel wide raises no division error and
   gets u = chunkNumber + 0.5. *)
C4_SingleColumnChunk ==
    pc # "idle" =>
        \A i \in 1..Len(me.loops) :
            PixelWidthOf(i) = 1 =>
                /\ uv_layer.raised = ""
                /\ UOf(i) = RAdd(RInt(ChunkOf(i)), Rat(1, 2))

(* the 16-bit value the two bytes stand for *)
Recombined == bytes.high_byte * 256 + bytes.low_byte

(* C5: for v in [0, 1] both bytes are in 0..255, highByte*256 + lowByte is
   floor(v * 65535), and that value over 65535 is less than 1/65535 from v. *)
C5_QuantizeRoundTrip ==
    (pc = "done" /\ RLeq(RInt(0), float_value) /\ RLeq(float_value, RInt(1))) =>
        /\ bytes.high_byte \in 0..255
        /\ bytes.low_byte \in 0..255
        /\ RLeq(Rat(Recombined, Scale16), float_value)
        /\ RLess(float_value, Rat(Recombined + 1, Scale16))
        /\ bytes.high = Rat(bytes.high_byte, 255)
        /\ bytes.low = Rat(bytes.low_byte, 255)

(* a value whose product with 65535 is no integer has been split *)
C5_Witness ==
    /\ pc = "done"
    /\ float_value = <<1, 7>>
    /\ bytes.high_byte = 36
    /\ bytes.low_byte = 146

(* C6: the bytes are those of floor(v * 65535) clamped to 0..65535: (255, 255)
   for every v > 1 and (0, 0) for every v < 0. *)
C6_QuantizeClamps ==
    pc = "done" =>
        /\ RLess(RInt(1), float_value)
               => (bytes.high_byte = 255 /\ bytes.low_byte = 255)
        /\ RLess(float_value, RInt(0))
               => (bytes.high_byte = 0 /\ bytes.low_byte = 0)
        /\ (RLeq(RInt(0), float_value) /\ RLeq(float_value, RInt(1)))
               => /\ RLeq(Rat(Recombined, Scale16), float_value)
                  /\ RLess(float_value, Rat(Recombined + 1, Scale16))

(* C7: a frame whose vertex count differs from the rest frame's makes
   get_vertex_data fail and return no planes; a plane it returns is
   vertexCount * frameCount * 4 long. *)
C7_FrameMismatchFails ==
    pc # "idle" =>
        /\ (\E f \in 1..Len(meshes) : Len(meshes[f]) # Len(meshes[1]))
               => /\ vertex_data.raised # ""
                  /\ vertex_data.offsets = <<>>
                  /\ vertex_data.normals = <<>>
        /\ vertex_data.raised = ""
               => /\ Len(vertex_data.offsets) = Len(meshes[1]) * Len(meshes) * 4
                  /\ Len(vertex_data.normals) = Len(meshes[1]) * Len(meshes) * 4

LimitExceeded ==
    \/ vertex_count_of(selection) > VertexLimit
    \/ frame_count_of(selection) > FrameLimit

(* C8: with the vertex count over 2048 or the frame count over 1024 the run
   never gets past validation: no encoding step is performed, scale_factor
   is not written, and the run ends CANCELLED with an error report. *)
C8_LimitFailsBeforeEncoding ==
    LimitExceeded =>
        /\ steps = <<>>
        /\ scale_factor = 1
        /\ pc \in {"idle", "validate", "done"}
        /\ pc = "done" => (result = "CANCELLED" /\ Len(reports) = 1)

(* a run over the vertex limit, and over nothing else, has been cancelled *)
C8_Witness ==
    /\ pc = "done"
    /\ result = "CANCELLED"
    /\ vertex_count_of(selection) > VertexLimit
    /\ frame_count_of(selection) <= FrameLimit
    /\ reports = <<"Vertex count execedes limit">>

StaticSequence ==
    \A f \in 1..Len(meshes) :
        /\ Len(meshes[f]) = Len(meshes[1])
        /\ \A i \in 1..Len(meshes[f]) : meshes[f][i].co = meshes[1][i].co

(* C9: when every frame has the positions of frame 0, get_vertex_data raises
   nothing, reports scale_factor 1.0, and every x, y, z offset channel is 0.5
   with alpha 1. *)
C9_StaticSequence ==
    (pc # "idle" /\ StaticSequence) =>
        /\ pc = "done"
        /\ vertex_data.raised = ""
        /\ scale_factor = 1
        /\ Len(vertex_data.offsets) = Len(meshes[1]) * Len(meshes) * 4
        /\ \A j \in 1..Len(vertex_data.offsets) :
              IF j % 4 = 0 THEN vertex_data.offsets[j] = Alpha
              ELSE vertex_data.offsets[j] = Chan(0, 1)

(* a static sequence of several frames, away from the origin, went through *)
C9_Witness ==
    /\ pc = "done"
    /\ StaticSequence
    /\ Len(meshes) >= 2
    /\ Len(meshes[1]) >= 2
    /\ meshes[2][1].co = <<1, -2, 2>>
    /\ Len(vertex_data.offsets) >= 16

(* C10: every run that returns CANCELLED leaves the scene's unit system and
   scale_length as they were when execute was entered, as a FINISHED run
   does. *)
C10_UnitsRestored ==
    (pc = "done" /\ result \in {"CANCELLED", "FINISHED"}) =>
        /\ unit_settings.system = original_settings[1]
        /\ unit_settings.scale_length = original_settings[2]

============================================================================
